---------------------------- MODULE Spec2Model ----------------------------
(***************************************************************************)
(* FEMSolver / NonlinearDiffusionSolver: 1D nonlinear diffusion, linear    *)
(* finite elements in space, forward Euler in time.                        *)
(*                                                                         *)
(* The state is the solver object (nx, L, dx, dt, nt, u, M), the locals of *)
(* solve() (n, K, rhs, u_new), the position inside solve() and the number  *)
(* of solve() calls the driver has completed.                              *)
(*                                                                         *)
(* A double is modelled by the exact rational it denotes, <<num, den>> in  *)
(* lowest terms with den > 0; <<1,0>> and <<-1,0>> are +inf/-inf and       *)
(* <<0,0>> is NaN.  Rounding is not modelled.  Numerators and denominators *)
(* are followed up to IntCap; a value beyond it is NaN, and the driver     *)
(* starts a call of solve() only when the model can follow it.             *)
(***************************************************************************)
EXTENDS Integers, Sequences, FiniteSets, TLC

(* ------------------------------ bounds --------------------------------- *)
\* largest node count drawn for the constructor
MaxNx == 5
\* largest step count drawn for the constructor
MaxNt == 2
\* number of solve() calls the driver makes at most
MaxCalls == 2
\* largest numerator / denominator the model follows
IntCap == 1000000000

(* --------------------------- double arithmetic ------------------------- *)
\* the values a double takes in the model
Double == Int \X Int

NaN == <<0, 0>>

\* a finite double
IsNum(x) == x[2] > 0

Abs(a) == IF a < 0 THEN 0 - a ELSE a

\* one division step of Euclid's algorithm on the pair <<a, b>>
EuclidStep[p \in Nat \X Nat] == IF p[2] = 0 THEN p ELSE <<p[2], p[1] % p[2]>>

Euclid8[p \in Nat \X Nat] ==
    EuclidStep[EuclidStep[EuclidStep[EuclidStep[
    EuclidStep[EuclidStep[EuclidStep[EuclidStep[p]]]]]]]]

\* greatest common divisor of the pair <<a, b>>, eight division steps at a time
GCD[p \in Nat \X Nat] == IF p[2] = 0 THEN p[1] ELSE GCD[Euclid8[p]]

\* n/d with the common divisor g taken out and the sign in the numerator
Lowest[n \in Int, d \in Int, g \in Nat] ==
    <<(IF d < 0 THEN 0 - 1 ELSE 1) * (n \div g), Abs(d) \div g>>

\* the double n/d, d # 0, in lowest terms
Q[n \in Int, d \in Int] == Lowest[n, d, GCD[<<Abs(n), Abs(d)>>]]

\* a * b stays within IntCap
Fits(a, b) == a = 0 \/ b = 0 \/ Abs(a) <= IntCap \div Abs(b)

\* x + y for finite x and y, g the common divisor of their denominators
AddOver[x \in Double, y \in Double, g \in Nat] ==
    LET p == y[2] \div g
        q == x[2] \div g
    IN  IF Fits(x[1], p) /\ Fits(y[1], q) /\ Fits(q, y[2])
        THEN Q[x[1] * p + y[1] * q, q * y[2]]
        ELSE NaN

RAdd[x \in Double, y \in Double] ==
    IF ~IsNum(x) \/ ~IsNum(y) THEN NaN ELSE AddOver[x, y, GCD[<<x[2], y[2]>>]]

RNeg[x \in Double] == <<0 - x[1], x[2]>>

RSub[x \in Double, y \in Double] == RAdd[x, RNeg[y]]

\* x * y for finite non-zero x and y, g1 and g2 the divisors taken out crosswise
MulOver[x \in Double, y \in Double, g1 \in Nat, g2 \in Nat] ==
    LET a == x[1] \div g1
        b == y[1] \div g2
        c == x[2] \div g2
        e == y[2] \div g1
    IN  IF Fits(a, b) /\ Fits(c, e) THEN <<a * b, c * e>> ELSE NaN

RMul[x \in Double, y \in Double] ==
    IF ~IsNum(x) \/ ~IsNum(y) THEN NaN
    ELSE IF x[1] = 0 \/ y[1] = 0 THEN <<0, 1>>
    ELSE MulOver[x, y, GCD[<<Abs(x[1]), y[2]>>], GCD[<<Abs(y[1]), x[2]>>]]

\* x / y; a finite non-zero x over 0 is +inf or -inf, 0/0 is NaN
RDiv[x \in Double, y \in Double] ==
    IF ~IsNum(x) \/ ~IsNum(y) THEN NaN
    ELSE IF y[1] = 0
         THEN (IF x[1] > 0 THEN <<1, 0>> ELSE IF x[1] < 0 THEN <<0 - 1, 0>> ELSE NaN)
         ELSE RMul[x, IF y[1] < 0 THEN <<0 - y[2], 0 - y[1]>> ELSE <<y[2], y[1]>>]

\* the double of an int
I(k) == <<k, 1>>

Zero == I(0)
One  == I(1)

RLess(x, y) == x[1] * y[2] < y[1] * x[2]

(* ------------------------- vectors and matrices ------------------------ *)
Idx(n) == 0 .. (n - 1)

RECURSIVE VectorsUpTo(_), MatricesUpTo(_), SystemsUpTo(_)
VectorsUpTo(k) ==
    IF k = 1 THEN [Idx(1) -> Double]
    ELSE VectorsUpTo(k - 1) \cup [Idx(k) -> Double]

MatricesUpTo(k) ==
    IF k = 1 THEN [Idx(1) -> [Idx(1) -> Double]]
    ELSE MatricesUpTo(k - 1) \cup [Idx(k) -> [Idx(k) -> Double]]

SystemsUpTo(k) ==
    IF k = 1 THEN [Idx(1) -> [0 .. 1 -> Double]]
    ELSE SystemsUpTo(k - 1) \cup [Idx(k) -> [0 .. k -> Double]]

\* VectorXd, MatrixXd, and a matrix with one more column, of up to MaxNx rows
Vector == VectorsUpTo(MaxNx)
Matrix == MatricesUpTo(MaxNx)
System == SystemsUpTo(MaxNx)

\* VectorXd::Ones(n)
OnesVec(n) == [i \in Idx(n) |-> One]

\* MatrixXd::Zero(n, n)
ZeroMat(n) == [i \in Idx(n) |-> [j \in Idx(n) |-> Zero]]

\* sum over j < k of a[j] * x[j]
Dot[a \in Vector, x \in Vector, k \in Nat] ==
    IF k = 0 THEN Zero ELSE RAdd[Dot[a, x, k - 1], RMul[a[k - 1], x[k - 1]]]

\* A * x
MatVec[A \in Matrix, x \in Vector, n \in Nat] == [i \in Idx(n) |-> Dot[A[i], x, n]]

VecSub[x \in Vector, y \in Vector, n \in Nat] == [i \in Idx(n) |-> RSub[x[i], y[i]]]

Scale[c \in Double, x \in Vector, n \in Nat] == [i \in Idx(n) |-> RMul[c, x[i]]]

AllNum[x \in Vector, n \in Nat] == \A i \in Idx(n) : IsNum(x[i])

(* ------------------------------ assembly ------------------------------- *)
\* the body of the loop of assemble_mass_matrix for index i
MassBody[A \in Matrix, i \in Nat, dx_ \in Double] ==
    [A EXCEPT ![i][i]     = RMul[Q[2, 3], dx_],
              ![i][i - 1] = RMul[Q[1, 6], dx_],
              ![i - 1][i] = RMul[Q[1, 6], dx_]]

\* the local M of assemble_mass_matrix after the iterations 1 .. i of
\* for (int i = 1; i < nx - 1; ++i)
MassLoop[i \in Int, nx_ \in Nat, dx_ \in Double] ==
    IF i < 1 THEN ZeroMat(nx_) ELSE MassBody[MassLoop[i - 1, nx_, dx_], i, dx_]

\* FEMSolver::assemble_mass_matrix; the local M shadows the member
assemble_mass_matrix(nx_, dx_) ==
    [MassLoop[nx_ - 2, nx_, dx_] EXCEPT ![0][0] = One, ![nx_ - 1][nx_ - 1] = One]

\* NonlinearDiffusionSolver::D
D[x \in Double] == RAdd[One, RMul[Q[1, 2], x]]

\* the body of the loop of assemble_stiffness_matrix for index i
StiffBody[A \in Matrix, i \in Nat, u_ \in Vector, dx_ \in Double] ==
    LET diffusion_coeff == D[u_[i]]
    IN  [A EXCEPT ![i][i]     = RDiv[RMul[I(2), diffusion_coeff], dx_],
                  ![i][i - 1] = RDiv[RNeg[diffusion_coeff], dx_],
                  ![i - 1][i] = RDiv[RNeg[diffusion_coeff], dx_]]

\* the local K of assemble_stiffness_matrix after the iterations 1 .. i of
\* for (int i = 1; i < nx - 1; ++i)
StiffLoop[i \in Int, u_ \in Vector, nx_ \in Nat, dx_ \in Double] ==
    IF i < 1 THEN ZeroMat(nx_)
    ELSE StiffBody[StiffLoop[i - 1, u_, nx_, dx_], i, u_, dx_]

\* a loop body that takes each off-diagonal entry from its own row's node
StiffBody_OwnRow[A \in Matrix, i \in Nat, u_ \in Vector, dx_ \in Double] ==
    [A EXCEPT ![i][i]     = RDiv[RMul[I(2), D[u_[i]]], dx_],
              ![i][i - 1] = RDiv[RNeg[D[u_[i]]], dx_],
              ![i - 1][i] = RDiv[RNeg[D[u_[i - 1]]], dx_]]

StiffLoop_OwnRow[i \in Int, u_ \in Vector, nx_ \in Nat, dx_ \in Double] ==
    IF i < 1 THEN ZeroMat(nx_)
    ELSE StiffBody_OwnRow[StiffLoop_OwnRow[i - 1, u_, nx_, dx_], i, u_, dx_]

\* assemble_stiffness_matrix with that loop body
assemble_stiffness_matrix_OwnRow(u_, nx_, dx_) ==
    [StiffLoop_OwnRow[nx_ - 2, u_, nx_, dx_] EXCEPT ![0][0] = One, ![nx_ - 1][nx_ - 1] = One]

\* NonlinearDiffusionSolver::assemble_stiffness_matrix
assemble_stiffness_matrix(u_, nx_, dx_) ==
    [StiffLoop[nx_ - 2, u_, nx_, dx_] EXCEPT ![0][0] = One, ![nx_ - 1][nx_ - 1] = One]

\* apply_boundary_conditions that forgets the node at x = L
apply_boundary_conditions_LeftOnly(x, nx_) == [x EXCEPT ![0] = One]

\* NonlinearDiffusionSolver::apply_boundary_conditions
apply_boundary_conditions(x, nx_) ==
    [[x EXCEPT ![0] = One] EXCEPT ![nx_ - 1] = One]

(* ----------------------------- linear solve ---------------------------- *)
\* the system A x = b as one matrix with b in column n
Augment[A \in Matrix, b \in Vector, n \in Nat] ==
    [i \in Idx(n) |-> [j \in 0 .. n |-> IF j < n THEN A[i][j] ELSE b[i]]]

Min(S) == CHOOSE m \in S : \A k \in S : m <= k

\* row c divided by its pivot B[c][c]
NormaliseRow[B \in System, c \in Nat, n \in Nat] ==
    [B EXCEPT ![c] = [j \in 0 .. n |-> RDiv[B[c][j], B[c][c]]]]

\* column c cleared in every row but row c, whose pivot is 1
ClearColumn[C \in System, c \in Nat, n \in Nat] ==
    [i \in Idx(n) |->
        IF i = c THEN C[c]
        ELSE [j \in 0 .. n |-> RSub[C[i][j], RMul[C[i][c], C[c][j]]]]]

\* an elimination under way: the system so far, and whether every column had a pivot
Progress == [ok : BOOLEAN, a : System]

\* one column of Gauss-Jordan elimination: the first row from c on with a
\* non-zero entry in column c becomes row c; ok is lost when there is none
ElimColumn[r \in Progress, c \in Nat, n \in Nat] ==
    LET cand == {k \in c .. (n - 1) : r.a[k][c][1] # 0}
    IN  IF ~r.ok \/ cand = {} THEN [ok |-> FALSE, a |-> r.a]
        ELSE [ok |-> TRUE,
              a  |-> ClearColumn[
                       NormaliseRow[
                         [r.a EXCEPT ![c] = r.a[Min(cand)], ![Min(cand)] = r.a[c]],
                         c, n],
                       c, n]]

\* Gauss-Jordan elimination of the columns 0 .. c-1: ok iff each has a pivot
Eliminate[A \in System, c \in Nat, n \in Nat] ==
    IF c = 0 THEN [ok |-> TRUE, a |-> A]
    ELSE ElimColumn[Eliminate[A, c - 1, n], c - 1, n]

\* M has no inverse
Singular(A, n) == ~Eliminate[Augment[A, [i \in Idx(n) |-> Zero], n], n, n].ok

\* column n of a system
LastColumn[A \in System, n \in Nat] == [i \in Idx(n) |-> A[i][n]]

\* the solution of A x = b, A not singular
ExactSolve[A \in Matrix, b \in Vector, n \in Nat] ==
    LastColumn[Eliminate[Augment[A, b, n], n, n].a, n]

\* what colPivHouseholderQr().solve may leave in an entry when M is singular
QrLeftover == {Zero, I(2)}

\* M.colPivHouseholderQr().solve(b): the solution when M is regular; with a
\* singular M the decomposition reports nothing and returns some vector
QrSolve(A, b, n) ==
    IF Singular(A, n) THEN [Idx(n) -> QrLeftover] ELSE {ExactSolve[A, b, n]}

(* --------------------------- one step, as a value ---------------------- *)
\* the argument of solve(): rhs - dt * K * u
SolveArg[rhs_ \in Vector, K_ \in Matrix, u_ \in Vector, dt_ \in Double, n \in Nat] ==
    VecSub[rhs_, Scale[dt_, MatVec[K_, u_, n], n], n]

\* u_new after apply_boundary_conditions, b the argument of solve() and x its
\* result; all NaN when a value leaves the range the model follows
Stepped[b \in Vector, x \in Vector, nx_ \in Nat] ==
    IF AllNum[b, nx_] /\ AllNum[x, nx_]
    THEN apply_boundary_conditions(x, nx_)
    ELSE [i \in Idx(nx_) |-> NaN]

\* the solve and the boundary conditions of one iteration with a regular M
SolveStep[M_ \in Matrix, b \in Vector, nx_ \in Nat] ==
    Stepped[b, ExactSolve[M_, b, nx_], nx_]

\* one iteration of the loop of solve() with a regular M
StepValue[u_ \in Vector, M_ \in Matrix, nx_ \in Nat, dx_ \in Double, dt_ \in Double] ==
    SolveStep[M_,
              SolveArg[MatVec[M_, u_, nx_],
                       assemble_stiffness_matrix(u_, nx_, dx_),
                       u_, dt_, nx_],
              nx_]

\* k iterations of the loop of solve() from u_
RunSteps[u_ \in Vector, k \in Int, M_ \in Matrix, nx_ \in Nat, dx_ \in Double, dt_ \in Double] ==
    IF k <= 0 \/ ~AllNum[u_, nx_] THEN u_
    ELSE RunSteps[StepValue[u_, M_, nx_, dx_, dt_], k - 1, M_, nx_, dx_, dt_]

(* -------------------------------- state -------------------------------- *)
VARIABLES
    phase,   \* "new": constructor not yet run; "ready": the object exists
    nx,      \* number of nodes
    L,       \* length of the domain
    dx,      \* spatial step size
    dt,      \* time step size
    nt,      \* number of time steps
    u,       \* solution vector
    M,       \* mass matrix
    pc,      \* position in solve(): idle, loop, assemble, rhs, solve, bc, commit
    n,       \* loop counter of solve()
    K,       \* local of solve(): stiffness matrix
    rhs,     \* local of solve(): M * u
    u_new,   \* local of solve(): the new solution
    calls    \* calls of solve() that have returned

vars == <<phase, nx, L, dx, dt, nt, u, M, pc, n, K, rhs, u_new, calls>>

\* a member or local that holds no value yet
Unset == <<>>

\* the domain lengths and time steps drawn for the constructor
LSet  == {I(0 - 12), I(4), I(12), I(48)}
DtSet == {Zero, Q[1, 1000], Q[1, 2], One}

\* the configuration the documentation calls valid
ValidConfig ==
    /\ nx >= 2
    /\ RLess(Zero, L)
    /\ RLess(Zero, dt)
    /\ nt >= 0

\* the driver follows a call of solve() only while its values stay in range
CallFits ==
    Singular(M, nx) \/ AllNum[RunSteps[u, nt, M, nx, dx, dt], nx]

Init ==
    /\ phase = "new"
    /\ nx \in 1 .. MaxNx
    /\ L \in LSet
    /\ dt \in DtSet
    /\ nt \in (0 - 1) .. MaxNt
    /\ dx = Unset /\ u = Unset /\ M = Unset
    /\ pc = "idle" /\ n = 0
    /\ K = Unset /\ rhs = Unset /\ u_new = Unset
    /\ calls = 0

\* a constructor that rejects what the documentation calls invalid
Construct_Validating ==
    /\ phase = "new"
    /\ IF ValidConfig
       THEN /\ dx' = RDiv[L, I(nx - 1)]
            /\ u' = OnesVec(nx)
            /\ M' = assemble_mass_matrix(nx, dx')
            /\ phase' = "ready"
       ELSE /\ phase' = "InvalidConfiguration"
            /\ UNCHANGED <<dx, u, M>>
    /\ UNCHANGED <<nx, L, dt, nt, pc, n, K, rhs, u_new, calls>>

\* FEMSolver::FEMSolver (through NonlinearDiffusionSolver's constructor)
Construct ==
    /\ phase = "new"
    /\ dx' = RDiv[L, I(nx - 1)]
    /\ u' = OnesVec(nx)
    /\ M' = assemble_mass_matrix(nx, dx')
    /\ phase' = "ready"
    /\ UNCHANGED <<nx, L, dt, nt, pc, n, K, rhs, u_new, calls>>

\* a solve() that starts every call from the initial solution
SolveCall_Reset ==
    /\ phase = "ready" /\ pc = "idle"
    /\ calls < MaxCalls
    /\ CallFits
    /\ pc' = "loop" /\ n' = 0
    /\ u' = OnesVec(nx)
    /\ UNCHANGED <<phase, nx, L, dx, dt, nt, M, K, rhs, u_new, calls>>

\* the driver calls solve(): int n = 0
SolveCall ==
    /\ phase = "ready" /\ pc = "idle"
    /\ calls < MaxCalls
    /\ CallFits
    /\ pc' = "loop" /\ n' = 0
    /\ UNCHANGED <<phase, nx, L, dx, dt, nt, u, M, K, rhs, u_new, calls>>

\* a loop test that runs one iteration too many: n <= nt
LoopTest_OffByOne ==
    /\ pc = "loop"
    /\ IF n <= nt
       THEN /\ pc' = "assemble"
            /\ UNCHANGED <<K, rhs, u_new, calls>>
       ELSE /\ pc' = "idle"
            /\ calls' = calls + 1
            /\ K' = Unset /\ rhs' = Unset /\ u_new' = Unset
    /\ UNCHANGED <<phase, nx, L, dx, dt, nt, u, M, n>>

\* n < nt: enter the body, or leave the loop and return
LoopTest ==
    /\ pc = "loop"
    /\ IF n < nt
       THEN /\ pc' = "assemble"
            /\ UNCHANGED <<K, rhs, u_new, calls>>
       ELSE /\ pc' = "idle"
            /\ calls' = calls + 1
            /\ K' = Unset /\ rhs' = Unset /\ u_new' = Unset
    /\ UNCHANGED <<phase, nx, L, dx, dt, nt, u, M, n>>

\* the assembled stiffness matrix lands in the member M as well
AssembleK_IntoM ==
    /\ pc = "assemble"
    /\ K' = assemble_stiffness_matrix(u, nx, dx)
    /\ M' = K'
    /\ pc' = "rhs"
    /\ UNCHANGED <<phase, nx, L, dx, dt, nt, u, n, rhs, u_new, calls>>

\* a solve() that assembles K in its first iteration only and then reuses it
AssembleK_Once ==
    /\ pc = "assemble"
    /\ K' = IF n = 0 THEN assemble_stiffness_matrix(u, nx, dx) ELSE K
    /\ pc' = "rhs"
    /\ UNCHANGED <<phase, nx, L, dx, dt, nt, u, M, n, rhs, u_new, calls>>

\* MatrixXd K = assemble_stiffness_matrix();
AssembleK ==
    /\ pc = "assemble"
    /\ K' = assemble_stiffness_matrix(u, nx, dx)
    /\ pc' = "rhs"
    /\ UNCHANGED <<phase, nx, L, dx, dt, nt, u, M, n, rhs, u_new, calls>>

\* VectorXd rhs = M * u;
FormRhs ==
    /\ pc = "rhs"
    /\ rhs' = MatVec[M, u, nx]
    /\ pc' = "solve"
    /\ UNCHANGED <<phase, nx, L, dx, dt, nt, u, M, n, K, u_new, calls>>

\* a solve that gives up on a singular M: solve() returns without committing
LinearSolve_Throwing ==
    /\ pc = "solve"
    /\ IF Singular(M, nx)
       THEN /\ pc' = "idle"
            /\ calls' = calls + 1
            /\ UNCHANGED u_new
       ELSE /\ u_new' \in QrSolve(M, SolveArg[rhs, K, u, dt, nx], nx)
            /\ pc' = "bc"
            /\ UNCHANGED calls
    /\ UNCHANGED <<phase, nx, L, dx, dt, nt, u, M, n, K, rhs>>

\* VectorXd u_new = M.colPivHouseholderQr().solve(rhs - dt * K * u);
LinearSolve ==
    /\ pc = "solve"
    /\ u_new' \in QrSolve(M, SolveArg[rhs, K, u, dt, nx], nx)
    /\ pc' = "bc"
    /\ UNCHANGED <<phase, nx, L, dx, dt, nt, u, M, n, K, rhs, calls>>

\* apply_boundary_conditions(u_new);
ApplyBC ==
    /\ pc = "bc"
    /\ u_new' = apply_boundary_conditions(u_new, nx)
    /\ pc' = "commit"
    /\ UNCHANGED <<phase, nx, L, dx, dt, nt, u, M, n, K, rhs, calls>>

\* u = u_new; ++n
Commit ==
    /\ pc = "commit"
    /\ u' = u_new
    /\ n' = n + 1
    /\ pc' = "loop"
    /\ UNCHANGED <<phase, nx, L, dx, dt, nt, M, K, rhs, u_new, calls>>

Next ==
    \/ Construct
    \/ SolveCall
    \/ LoopTest
    \/ AssembleK
    \/ FormRhs
    \/ LinearSolve
    \/ ApplyBC
    \/ Commit

Spec == Init /\ [][Next]_vars

\* the loop of solve() keeps running once it is called
FairSpec ==
    Spec /\ WF_vars(LoopTest \/ AssembleK \/ FormRhs \/ LinearSolve \/ ApplyBC \/ Commit)

(* ------------------------------- claims -------------------------------- *)
Max0(k) == IF k < 0 THEN 0 ELSE k

\* C1: Dirichlet invariant.  From construction on, and so after every
\* completed step, the committed u has u[0] = 1.0 and u[nx-1] = 1.0,
\* whatever the linear solve left at those two indices.
C1_DirichletInvariant ==
    phase = "ready" => u[0] = One /\ u[nx - 1] = One

\* C1 witness: a valid configuration whose solve returned entries that are
\* never 1.0 (M is singular), after a committed step.
C1_Witness ==
    /\ phase = "ready" /\ ValidConfig
    /\ Singular(M, nx)
    /\ pc = "loop" /\ n >= 1
    /\ u = u_new
    /\ u[1] \in QrLeftover
    /\ u[0] = One /\ u[nx - 1] = One

\* C2: steady-state fixed point.  With a constant diffusion coefficient and
\* the all-ones initial vector, the committed u after solve() is all ones.
\* Stated for a single call of at most one step: D is then evaluated only at
\* u[i] = 1.0, where it is the constant 3/2 at every node.
C2_SteadyStateFixedPoint ==
    (/\ phase = "ready" /\ ValidConfig
     /\ ~Singular(M, nx)
     /\ pc = "idle" /\ calls = 1 /\ nt <= 1)
    => u = OnesVec(nx)

\* the mass matrix as C3 describes it
ClaimedMass(nx_, h) ==
    [i \in Idx(nx_) |-> [j \in Idx(nx_) |->
        IF i = 0 \/ i = nx_ - 1 THEN (IF j = i THEN One ELSE Zero)
        ELSE IF j = i THEN RMul[Q[2, 3], h]
        ELSE IF j = i - 1 THEN RMul[Q[1, 6], h]
        ELSE IF j = i + 1 /\ j <= nx_ - 2 THEN RMul[Q[1, 6], h]
        ELSE Zero]]

\* C3: mass matrix assembly.  M has 2h/3 on the interior diagonal, h/6 at
\* M[i][i-1] and M[i-1][i] for interior i, identity rows 0 and nx-1 (so
\* M[0][1] = 0 and M[nx-1][nx-2] = 0), and 0 elsewhere.
C3_MassMatrixAsClaimed ==
    (phase = "ready" /\ ValidConfig) => M = ClaimedMass(nx, dx)

\* the stiffness matrix as C4 describes it
ClaimedStiffness(u_, nx_, h) ==
    [i \in Idx(nx_) |-> [j \in Idx(nx_) |->
        IF i = 0 \/ i = nx_ - 1 THEN (IF j = i THEN One ELSE Zero)
        ELSE IF j = i THEN RDiv[RMul[I(2), D[u_[i]]], h]
        ELSE IF j = i - 1 THEN RDiv[RNeg[D[u_[i]]], h]
        ELSE IF j = i + 1 /\ j <= nx_ - 2 THEN RDiv[RNeg[D[u_[j]]], h]
        ELSE Zero]]

\* C4: stiffness matrix assembly.  With d = D(u[i]) at the node's own value,
\* K has 2d/h on the interior diagonal, -d/h at K[i][i-1] and K[i-1][i] for
\* interior i, identity rows 0 and nx-1, and 0 elsewhere.
C4_StiffnessMatrixAsClaimed ==
    (phase = "ready" /\ ValidConfig /\ pc = "rhs") => K = ClaimedStiffness(u, nx, dx)

\* C5: the mass matrix of a valid configuration is never singular.
C5_MassNeverSingular ==
    (phase = "ready" /\ ValidConfig) => ~Singular(M, nx)

\* C6 as stated: a singular M is fatal.  The solve statement never completes,
\* no step is taken and nothing computed from it is committed.
C6_SingularIsFatal ==
    (phase = "ready" /\ Singular(M, nx))
    => /\ pc \notin {"bc", "commit"}
       /\ n = 0
       /\ u = OnesVec(nx)

\* C6 amended: a singular M is not detected.  Every iteration commits the
\* vector the solve returned, its two boundary entries overwritten, and a call
\* of solve() returns only after all nt iterations.
C6_SingularNotDetected ==
    (phase = "ready" /\ Singular(M, nx))
    => /\ pc \in {"idle", "loop", "assemble", "rhs", "solve", "bc", "commit"}
       /\ (pc = "commit" => u_new[0] = One /\ u_new[nx - 1] = One)
       /\ (pc = "loop" /\ n >= 1 => u = u_new)
       /\ (pc = "idle" /\ calls >= 1 => n = Max0(nt))

\* C6 witness: a valid configuration with a singular M whose call of solve()
\* has returned after nt >= 1 iterations, leaving a returned entry in u.
C6_Witness ==
    /\ phase = "ready" /\ ValidConfig
    /\ Singular(M, nx)
    /\ pc = "idle" /\ calls >= 1
    /\ nt >= 1 /\ n = nt
    /\ u[1] \in QrLeftover

\* C7 as stated: a solver exists only for nx >= 2, L > 0, dt > 0, nt >= 0,
\* and then h > 0.
C7_ConfigurationValidated ==
    phase = "ready" => ValidConfig /\ RLess(Zero, dx)

\* C7 amended: the constructor checks nothing and cannot fail.  For every
\* nx >= 1 and every L, dt, nt it leaves a solver with dx = L / (nx - 1), u
\* all ones and M assembled.
C7_NoValidation ==
    /\ phase \in {"new", "ready"}
    /\ phase = "ready"
       => /\ dx = RDiv[L, I(nx - 1)]
          /\ DOMAIN u = Idx(nx)
          /\ M = assemble_mass_matrix(nx, dx)
          /\ (pc = "idle" /\ calls = 0 => u = OnesVec(nx))

\* C7 witness: a solver on which solve() has run although it has one node,
\* an infinite h, a negative L, no time step and a negative step count.
C7_Witness ==
    /\ phase = "ready"
    /\ nx = 1 /\ dx = <<0 - 1, 0>>
    /\ dt = Zero /\ nt < 0
    /\ calls >= 1

\* C8: the mass matrix is write-once.  No step taken on a constructed solver
\* changes M, nor nx, L, dx, dt or nt.
C8_MassWriteOnce ==
    [][phase = "ready" =>
         /\ M' = M
         /\ nx' = nx /\ L' = L /\ dx' = dx /\ dt' = dt /\ nt' = nt]_vars

\* C8 witness: after two calls of solve() that moved an interior node, M is
\* the matrix the constructor assembled.
C8_Witness ==
    /\ phase = "ready" /\ ValidConfig
    /\ calls = 2 /\ nt >= 1 /\ nx >= 3
    /\ u[1] # One
    /\ M = assemble_mass_matrix(nx, dx)

\* the bookkeeping of the loop of solve()
C9_StepCount ==
    phase = "ready" =>
        /\ (pc \in {"assemble", "rhs", "solve", "bc", "commit"} => 0 <= n /\ n < nt)
        /\ (pc = "loop" => 0 <= n /\ n <= Max0(nt))
        /\ (pc = "idle" /\ calls >= 1 => n = Max0(nt))
        /\ (nt <= 0 => u = OnesVec(nx))

\* C9: termination with an exact step count.  A call of solve() returns, and
\* it returns after exactly nt completed iterations (none for nt <= 0, which
\* leaves u all ones), never earlier and never later.
C9_ExactStepCount ==
    /\ []C9_StepCount
    /\ [](pc # "idle" => <>(pc = "idle"))

\* C9 witness: a call has returned after its nt = MaxNt iterations.
C9_Witness ==
    /\ phase = "ready" /\ ValidConfig
    /\ pc = "idle" /\ calls = 1
    /\ nt = MaxNt /\ n = nt
    /\ nx >= 3 /\ u[1] # One

\* the vectors a single call of solve() with step count k can leave in u
SolveOutcomes(k) ==
    IF Singular(M, nx)
    THEN (IF k <= 0 THEN {OnesVec(nx)}
          ELSE {apply_boundary_conditions(x, nx) : x \in [Idx(nx) -> QrLeftover]})
    ELSE {RunSteps[OnesVec(nx), k, M, nx, dx, dt]}

\* C10: re-invocation continues.  After k calls of solve() the committed u
\* is what one call with step count k * nt leaves.
C10_ReinvocationContinues ==
    (phase = "ready" /\ pc = "idle") => u \in SolveOutcomes(calls * Max0(nt))

\* C10 witness: two calls of one step each have moved an interior node to
\* where one call of two steps takes it, which is not where one step does.
C10_Witness ==
    /\ phase = "ready" /\ ValidConfig
    /\ ~Singular(M, nx)
    /\ pc = "idle" /\ calls = 2 /\ nt = 1 /\ nx >= 3
    /\ u = RunSteps[OnesVec(nx), 2, M, nx, dx, dt]
    /\ u # RunSteps[OnesVec(nx), 1, M, nx, dx, dt]

\* the configuration of the concrete scenario: N = 5, L = 4.0, dt = 0.001, T = 1
Scenario == nx = 5 /\ L = I(4) /\ dt = Q[1, 1000] /\ nt = 1

\* tridiag(lo, di, lo) in the interior rows, identity rows 0 and n-1
ClaimedTridiag(n_, lo, di) ==
    [i \in Idx(n_) |-> [j \in Idx(n_) |->
        IF i = 0 \/ i = n_ - 1 THEN (IF j = i THEN One ELSE Zero)
        ELSE IF j = i THEN di
        ELSE IF j = i - 1 \/ j = i + 1 THEN lo
        ELSE Zero]]

\* C11: concrete scenario.  With N = 5, L = 4.0, dt = 0.001, T = 1 and u all
\* ones, M is tridiag(1/6, 4/3, 1/6) in the interior with identity rows 0 and
\* 4, the K of the step is tridiag(-1.5, 3.0, -1.5) in the interior with
\* identity rows 0 and 4, and after the step u[0] = u[4] = 1.0.
C11_ConcreteScenario ==
    (phase = "ready" /\ Scenario)
    => /\ dx = One
       /\ M = ClaimedTridiag(5, Q[1, 6], Q[4, 3])
       /\ (pc = "rhs" /\ calls = 0 => K = ClaimedTridiag(5, Q[0 - 3, 2], I(3)))
       /\ (pc = "idle" /\ calls = 1 => u[0] = One /\ u[4] = One)

\* A[i][j] = A[j][i] for all interior i, j
InteriorSymmetric[A \in Matrix, n_ \in Nat] ==
    \A i, j \in 1 .. (n_ - 2) : A[i][j] = A[j][i]

\* node values that give three different diffusion coefficients
NodeValues == {Zero, One, I(2)}

\* C12: symmetry of both assemblers.  For all interior indices i # j the
\* assembled matrices have M[i][j] = M[j][i] and K[i][j] = K[j][i], for the K
\* of every step and for the K assembled from any vector of node values,
\* uniform or not.
C12_InteriorSymmetry ==
    phase = "ready" =>
        /\ InteriorSymmetric[M, nx]
        /\ (pc \in {"rhs", "solve", "bc", "commit"} => InteriorSymmetric[K, nx])
        /\ (pc = "idle" /\ calls = 0 =>
               \A v \in [Idx(nx) -> NodeValues] :
                   InteriorSymmetric[assemble_stiffness_matrix(v, nx, dx), nx])

\* C12 witness: a K assembled in a step from a u whose first two interior
\* nodes have different diffusion coefficients, with coupled interior entries.
C12_Witness ==
    /\ phase = "ready" /\ ValidConfig
    /\ pc = "rhs" /\ nx >= 4
    /\ D[u[1]] # D[u[2]]
    /\ K[1][2] # Zero /\ K[1][2] = K[2][1]
    /\ M[1][2] # Zero /\ M[1][2] = M[2][1]

\* inside an iteration K is the matrix assembled from the committed u, rhs is
\* M * u for that u, and the solve has solved M * u_new = rhs - dt * K * u
C13_Fresh ==
    phase = "ready" =>
        /\ (pc \in {"rhs", "solve", "bc", "commit"}
              => K = assemble_stiffness_matrix(u, nx, dx))
        /\ (pc \in {"solve", "bc", "commit"} => rhs = MatVec[M, u, nx])
        /\ (pc = "bc" /\ ~Singular(M, nx)
              => MatVec[M, u_new, nx] = SolveArg[rhs, K, u, dt, nx])

\* the five actions of an iteration follow each other in the order of the code
C13_Order ==
    /\ (pc = "assemble" => pc' = "rhs" /\ u' = u)
    /\ (pc = "rhs" => pc' = "solve" /\ u' = u /\ K' = K)
    /\ (pc = "solve" => pc' = "bc" /\ u' = u /\ K' = K /\ rhs' = rhs)
    /\ (pc = "bc" => pc' = "commit" /\ u' = u)
    /\ (pc = "commit" => pc' = "loop" /\ u' = u_new /\ n' = n + 1)
    /\ (pc = "loop" => pc' \in {"assemble", "idle"} /\ u' = u)

\* a commit that changes an interior node before a further iteration leaves a
\* u whose stiffness matrix is not the K of the iteration that ends
C13_Differ ==
    (/\ pc = "commit" /\ n + 1 < nt
     /\ \E i \in 1 .. (nx - 2) : u'[i] # u[i])
    => assemble_stiffness_matrix(u', nx, dx) # K

\* C13: per-step ordering and freshness of K.  Every iteration of solve()
\* runs assemble K, form rhs, solve, apply boundary conditions, commit in
\* this order; its K is assembled from the u the previous iteration
\* committed, its right-hand side uses that u and that K, and the K of two
\* consecutive iterations differ when the commit between them changed an
\* interior node.
C13_OrderAndFreshK ==
    /\ []C13_Fresh
    /\ [][C13_Order /\ C13_Differ]_vars

\* C13 witness: the second iteration of a call is about to commit; its K
\* comes from the u of the first commit and is not the K of the first
\* iteration.
C13_Witness ==
    /\ phase = "ready" /\ ValidConfig
    /\ ~Singular(M, nx)
    /\ pc = "commit" /\ n = 1 /\ nx >= 3
    /\ u # OnesVec(nx)
    /\ K = assemble_stiffness_matrix(u, nx, dx)
    /\ K # assemble_stiffness_matrix(OnesVec(nx), nx, dx)
    /\ rhs = MatVec[M, u, nx]

=============================================================================
